---- MODULE Spec2Model ----
(***************************************************************************)
(* The edge API of zhenren: the request router (src/api/index.ts), the     *)
(* document handler (src/api/documents.ts) and the search handler          *)
(* (src/api/search.ts), with the three bindings they await: the embedding  *)
(* provider env.AI, the vector index env.VECTORS and the relational store  *)
(* env.DB (table documents).                                               *)
(*                                                                         *)
(* A request occupies a slot; its handler runs from one await to the next  *)
(* in one action, so requests in different slots interleave at every       *)
(* await, as they do on the hosting runtime.                               *)
(***************************************************************************)
EXTENDS Integers, Sequences, FiniteSets, TLC

VARIABLES
    pc,        \* slot -> where the request of that slot is suspended
    req,       \* slot -> the request being handled
    loc,       \* slot -> the locals of fetch and of the handler
    calls,     \* slot -> the binding calls the request has issued, in order
    last,      \* the exchange the last step completed, if it completed one:
               \* the request, its locals and calls, and the response returned
    db,        \* the rows of table documents, in insertion order
    vectors,   \* the vector index: id -> entry
    now,       \* the server clock, in seconds
    nextUuid,  \* how many identifiers crypto.randomUUID has handed out
    answered,  \* the creates answered 200, in order: id, submitted title, content
    drawer     \* client: drawer component -> its prop isOpen, its state
               \* shouldRender, the slide animation in flight, and whether
               \* the effect of its last render has still to run

vars == <<pc, req, loc, calls, last, db, vectors, now, nextUuid, answered,
          drawer>>

\* the variables of the Worker
apiVars == <<pc, req, loc, calls, last, db, vectors, now, nextUuid, answered>>

\* src/client/app/index.tsx:44-54: the two drawers of HomeScreen
Drawers == {"SiteMenu", "ConfigDrawer"}

\* no slide animation is running on slideAnim
NoAnim == [running |-> FALSE, isOpen |-> FALSE]

\* Animated.timing(...).start(callback): the animation in flight and the isOpen
\* its callback closed over
Anim(isOpen) == [running |-> TRUE, isOpen |-> isOpen]

\* src/client/app/index.tsx:13-14, src/client/components/ConfigDrawer.tsx:17-18:
\* the first render: closed, not rendered, no animation, the effect to run
FirstRender ==
    [isOpen |-> FALSE, shouldRender |-> FALSE, anim |-> NoAnim, effect |-> TRUE]

----------------------------------------------------------------------------
(* Bounds of the model *)

NumSlots == 2      \* requests in flight at once (Spec)
MaxIds == 2        \* creates that reach crypto.randomUUID (Spec, SpecRouter)
MaxClock == 1      \* the clock runs 0..MaxClock
MaxListRows == 51  \* creates in SpecList: one more than the listing window

Slots == 1..NumSlots

Min(a, b) == IF a <= b THEN a ELSE b

----------------------------------------------------------------------------
(* Strings that the code takes apart are sequences of characters; a        *)
(* character is a pair <<class, n>>.  Ch("api") stands for the run of      *)
(* letters "api", UuidCh(i) for the text of the i-th UUID.                 *)

Ch(s) == <<s, 0>>
UuidCh(i) == <<"uuid", i>>
Slash == Ch("/")

UuidStr(i) == <<UuidCh(i)>>

PathDocuments == <<Slash, Ch("api"), Slash, Ch("documents")>>
PathDocumentsSlash == PathDocuments \o <<Slash>>
PathSearch == <<Slash, Ch("api"), Slash, Ch("search")>>

\* String.prototype.startsWith
StartsWith(s, p) == Len(s) >= Len(p) /\ SubSeq(s, 1, Len(p)) = p

\* String.prototype.split(sep), sep one character: the pieces between seps
RECURSIVE SplitFrom(_, _, _, _)
SplitFrom(s, sep, i, cur) ==
    IF i > Len(s) THEN <<cur>>
    ELSE IF s[i] = sep THEN <<cur>> \o SplitFrom(s, sep, i + 1, <<>>)
    ELSE SplitFrom(s, sep, i + 1, Append(cur, s[i]))

Split(s, sep) == SplitFrom(s, sep, 1, <<>>)

\* a[i] of a JavaScript array (0-based); undefined is modelled as Undefined
Undefined == <<Ch("undefined")>>
At(a, i) == IF i + 1 <= Len(a) THEN a[i + 1] ELSE Undefined

----------------------------------------------------------------------------
(* Responses *)

ContentType == "Content-Type"

\* src/api/index.ts:20-24
corsHeaders ==
    [h \in {"Access-Control-Allow-Origin", "Access-Control-Allow-Methods",
            "Access-Control-Allow-Headers"} |->
        CASE h = "Access-Control-Allow-Origin" -> "*"
          [] h = "Access-Control-Allow-Methods" -> "GET, POST, OPTIONS"
          [] h = "Access-Control-Allow-Headers" -> "Content-Type"]

NoHeaders == [h \in {} |-> ""]

NoResp == [status |-> 0, kind |-> "none", body |-> "", headers |-> NoHeaders]

\* new Response(null, { headers })
NullResponse(headers) ==
    [status |-> 200, kind |-> "empty", body |-> "", headers |-> headers]

\* new Response(text, { status })
TextResponse(text, status) ==
    [status |-> status, kind |-> "text", body |-> text,
     headers |-> [h \in {ContentType} |-> "text/plain;charset=UTF-8"]]

\* Response.json(value, { status })
JsonResponse(value, status) ==
    [status |-> status, kind |-> "json", body |-> value,
     headers |-> [h \in {ContentType} |-> "application/json"]]

\* headers.set(key, value) for every entry of hs
SetHeaders(response, hs) ==
    [response EXCEPT !.headers =
        [h \in DOMAIN response.headers \cup DOMAIN hs |->
            IF h \in DOMAIN hs THEN hs[h] ELSE response.headers[h]]]

----------------------------------------------------------------------------
(* Requests *)

\* the body of a request: none, text that is not JSON, or a JSON object;
\* has names the fields among title and content the object has
NoBody == [kind |-> "none", has |-> {}, title |-> "", content |-> ""]
InvalidBody == [kind |-> "invalid", has |-> {}, title |-> "", content |-> ""]
ObjBody(t, c) ==
    [kind |-> "object", has |-> {"title", "content"}, title |-> t, content |-> c]
TitlelessBody(c) ==
    [kind |-> "object", has |-> {"content"}, title |-> "", content |-> c]

\* a query parameter: URLSearchParams.get gives null when it is absent
NoQ == [present |-> FALSE, val |-> ""]
Q(s) == [present |-> TRUE, val |-> s]
NoLimit == [present |-> FALSE, val |-> <<>>]
Limit(s) == [present |-> TRUE, val |-> s]

Request(method, path, body, q, limit) ==
    [method |-> method, path |-> path, body |-> body, q |-> q, limit |-> limit]

NoReq == Request("", <<>>, NoBody, NoQ, NoLimit)


Digit(d) == <<"digit", d>>

----------------------------------------------------------------------------
(* Numbers of JavaScript that may be NaN *)

NaN == [nan |-> TRUE, val |-> 0]
Num(n) == [nan |-> FALSE, val |-> n]

\* the digits s[i..] starts with, as a number, and how many there are
RECURSIVE DigitsFrom(_, _, _, _)
DigitsFrom(s, i, acc, n) ==
    IF i <= Len(s) /\ s[i][1] = "digit"
    THEN DigitsFrom(s, i + 1, 10 * acc + s[i][2], n + 1)
    ELSE [val |-> acc, count |-> n]

\* parseInt(s): an optional sign, then the leading decimal digits; NaN if none
ParseInt(s) ==
    LET neg == Len(s) >= 1 /\ s[1] = Ch("-")
        d == DigitsFrom(s, IF neg THEN 2 ELSE 1, 0, 0)
    IN  IF d.count = 0 THEN NaN
        ELSE Num(IF neg THEN 0 - d.val ELSE d.val)

\* Math.min(a, b)
MathMin(a, b) ==
    IF a.nan \/ b.nan THEN NaN ELSE Num(Min(a.val, b.val))

----------------------------------------------------------------------------
(* The bindings *)

\* the vector env.AI.run returns for a text
Embed(text) == <<"embedding", text>>

\* (mutant) the same identifier every time
RandomUUIDFixed(n) == UuidStr(1)

\* src/api/documents.ts:12: crypto.randomUUID(), the n-th identifier handed out
RandomUUID(n) == UuidStr(n + 1)

\* (mutant) the upsert is lost
VectorsUpsertLost(index, entry) == index

\* VECTORS.upsert([entry])
VectorsUpsert(index, entry) ==
    [i \in DOMAIN index \cup {entry.id} |->
        IF i = entry.id THEN [values |-> entry.values, metadata |-> entry.metadata]
        ELSE index[i]]

NoVectors ==
    [i \in {} |-> [values |-> <<>>, metadata |-> [hasTitle |-> FALSE, title |-> ""]]]

HasRow(rows, id) == \E k \in 1..Len(rows) : rows[k].id = id

\* DB ... first(): the row with this id, when there is one
RowOf(rows, id) == rows[CHOOSE k \in 1..Len(rows) : rows[k].id = id]

\* INSERT INTO documents: id is the PRIMARY KEY, a second row with it is refused
InsertAccepted(rows, row) == ~HasRow(rows, row.id)

\* title TEXT NOT NULL, content TEXT NOT NULL: a field the body did not have
\* is bound as undefined, and no row is written without it
NotNull(has) == {"title", "content"} \subseteq has

\* src/api/documents.ts:54: LIMIT 50
ListLimit == 50

\* ORDER BY created DESC leaves the order of rows with equal created open:
\* "scan" keeps them in table order, "reverse" in the opposite order
TieOrders == {"scan", "reverse"}

RECURSIVE Reverse(_)
Reverse(s) == IF s = <<>> THEN <<>> ELSE Append(Reverse(Tail(s)), Head(s))

\* row put into a sequence sorted by created descending, after its equals
RECURSIVE InsertDesc(_, _, _)
InsertDesc(sorted, row, i) ==
    IF i > Len(sorted) THEN Append(sorted, row)
    ELSE IF sorted[i].created < row.created
         THEN SubSeq(sorted, 1, i - 1) \o <<row>> \o SubSeq(sorted, i, Len(sorted))
         ELSE InsertDesc(sorted, row, i + 1)

RECURSIVE SortDescFrom(_, _, _)
SortDescFrom(rows, i, acc) ==
    IF i > Len(rows) THEN acc
    ELSE SortDescFrom(rows, i + 1, InsertDesc(acc, rows[i], 1))

\* (mutant) the ORDER BY is missing: table order
OrderByNothing(rows, tie) == rows

OrderByCreatedDesc(rows, tie) ==
    SortDescFrom(IF tie = "scan" THEN rows ELSE Reverse(rows), 1, <<>>)

\* src/api/documents.ts:52-55:
\* SELECT id, title, created FROM documents ORDER BY created DESC LIMIT 50
SelectList(rows, tie) ==
    LET sorted == OrderByCreatedDesc(rows, tie)
        n == Min(ListLimit, Len(sorted))
    IN  [k \in 1..n |->
            [id |-> sorted[k].id, title |-> sorted[k].title,
             created |-> sorted[k].created]]

\* src/api/documents.ts:42-43: SELECT * FROM documents WHERE id = ? ... first()
SelectFirst(rows, id) ==
    IF HasRow(rows, id) THEN <<RowOf(rows, id)>> ELSE <<>>

\* the matches VECTORS.query may return for topK: the index decides which
\* entries are nearest, so any topK distinct entries, in any order
RECURSIVE Arrangements(_, _)
Arrangements(ids, n) ==
    IF n = 0 \/ ids = {} THEN {<<>>}
    ELSE UNION {{<<i>> \o rest : rest \in Arrangements(ids \ {i}, n - 1)} : i \in ids}

Score(values, queryVector) == <<"score", values, queryVector>>

Matches(index, queryVector, topK) ==
    {[k \in 1..Len(a) |->
        [id |-> a[k], score |-> Score(index[a[k]].values, queryVector),
         metadata |-> index[a[k]].metadata]] :
     a \in Arrangements(DOMAIN index, topK)}

----------------------------------------------------------------------------
(* The router, src/api/index.ts *)

\* src/api/index.ts:26-28: the preflight response
Preflight == NullResponse(corsHeaders)

\* src/api/index.ts:44-49: the CORS headers are set on the handler's response
RouterReturn(response) == SetHeaders(response, corsHeaders)

\* (mutant) the catch clause forgets the CORS headers
RouterCatchNoCors == JsonResponse([error |-> "Internal server error"], 500)

\* (mutant) the catch clause reports the exception
RouterCatchLeaky ==
    SetHeaders(JsonResponse([error |-> "exception message"], 500), corsHeaders)

\* src/api/index.ts:50-58: what the catch clause returns
RouterCatch ==
    SetHeaders(JsonResponse([error |-> "Internal server error"], 500), corsHeaders)

\* !query of src/api/search.ts:14: null and "" are falsy
Falsy(param) == ~param.present \/ param.val = ""

\* (mutant) a POST creates whatever follows the prefix
DocumentsBranchAnyPost(q) ==
    IF q.method = "POST" THEN "create"
    ELSE IF StartsWith(q.path, PathDocumentsSlash) /\ q.method = "GET" THEN "get"
    ELSE IF q.path = PathDocuments /\ q.method = "GET" THEN "list"
    ELSE "documents405"

\* src/api/documents.ts:9,40,51,60: the branch handleDocuments takes
DocumentsBranch(q) ==
    IF q.path = PathDocuments /\ q.method = "POST" THEN "create"
    ELSE IF StartsWith(q.path, PathDocumentsSlash) /\ q.method = "GET" THEN "get"
    ELSE IF q.path = PathDocuments /\ q.method = "GET" THEN "list"
    ELSE "documents405"

\* (mutant) the query parameter is not tested
SearchBranchNoQueryTest(q) == IF q.method # "GET" THEN "search405" ELSE "search"

\* (mutant) the query parameter is tested before the method
SearchBranchQueryFirst(q) ==
    IF Falsy(q.q) THEN "search400"
    ELSE IF q.method # "GET" THEN "search405"
    ELSE "search"

\* src/api/search.ts:6,14: the branch handleSearch takes
SearchBranch(q) ==
    IF q.method # "GET" THEN "search405"
    ELSE IF Falsy(q.q) THEN "search400"
    ELSE "search"

\* (mutant) OPTIONS requests are routed like the others
RouteNoPreflight(q) ==
    IF StartsWith(q.path, PathDocuments) THEN DocumentsBranch(q)
    ELSE IF q.path = PathSearch THEN SearchBranch(q)
    ELSE "notfound"

\* (mutant) /api/search is matched as a prefix too
RoutePrefixSearch(q) ==
    IF q.method = "OPTIONS" THEN "preflight"
    ELSE IF StartsWith(q.path, PathDocuments) THEN DocumentsBranch(q)
    ELSE IF StartsWith(q.path, PathSearch) THEN SearchBranch(q)
    ELSE "notfound"

\* src/api/index.ts:26,33-42: where fetch sends the request
Route(q) ==
    IF q.method = "OPTIONS" THEN "preflight"
    ELSE IF StartsWith(q.path, PathDocuments) THEN DocumentsBranch(q)
    ELSE IF q.path = PathSearch THEN SearchBranch(q)
    ELSE "notfound"

\* src/api/search.ts:12: parseInt(url.searchParams.get('limit') || '10')
LimitOf(q) ==
    ParseInt(IF q.limit.present /\ q.limit.val # <<>> THEN q.limit.val
             ELSE <<Digit(1), Digit(0)>>)

\* (mutant) the limit is passed on as it is
TopKUncapped(limit) == limit

\* src/api/search.ts:29: the topK asked of the index
TopK(limit) == MathMin(limit, Num(20))

\* (mutant) no fallback for the title
TitleOrNothing(metadata) == metadata.title

\* src/api/search.ts:40: match.metadata?.title || 'Untitled'
TitleOr(metadata) ==
    IF metadata.hasTitle /\ metadata.title # "" THEN metadata.title ELSE "Untitled"

\* one call of a binding, as the request issued it
Call(dep, id, text, n) == [dep |-> dep, id |-> id, text |-> text, n |-> n]

\* the locals of a request: id, title, content (has: which of the two the
\* body had), embedding, limit, the matches of the index and the bound created
\* of the handlers, and two observations made when they were set:
\* fresh, whether the id drawn was in no store and held by no other request,
\* and after, whether the id looked up had been answered by a create before
\* the lookup arrived
NoLoc ==
    [id |-> <<>>, has |-> {}, title |-> "", content |-> "", created |-> 0,
     limit |-> NaN, embedding |-> [hasData |-> FALSE, data |-> <<>>],
     matches |-> <<>>, fresh |-> FALSE, after |-> FALSE]

\* no exchange was completed by the step
NoLast ==
    [req |-> NoReq, loc |-> NoLoc, calls |-> <<>>, threw |-> "", resp |-> NoResp]

\* the request of slot r, now with locals l and calls c, is suspended at p
Suspend(r, p, q, l, c) ==
    /\ pc' = [pc EXCEPT ![r] = p]
    /\ req' = [req EXCEPT ![r] = q]
    /\ loc' = [loc EXCEPT ![r] = l]
    /\ calls' = [calls EXCEPT ![r] = c]
    /\ last' = NoLast

\* fetch returns response for the request of slot r: the slot is free again;
\* threw names the awaited call that rejected, "" when none did
Finish(r, q, l, c, threw, response) ==
    /\ pc' = [pc EXCEPT ![r] = "idle"]
    /\ req' = [req EXCEPT ![r] = NoReq]
    /\ loc' = [loc EXCEPT ![r] = NoLoc]
    /\ calls' = [calls EXCEPT ![r] = <<>>]
    /\ last' = [req |-> q, loc |-> l, calls |-> c, threw |-> threw,
                resp |-> response]

Respond(r, q, l, c, response) == Finish(r, q, l, c, "", response)

\* (mutant) no catch clause: the exception leaves fetch and no response does
ThrowUncaught(r, what) ==
    /\ pc' = [pc EXCEPT ![r] = "crashed"]
    /\ last' = NoLast
    /\ UNCHANGED <<req, loc, calls>>

\* src/api/index.ts:30,50-59: an awaited call rejects; the exception reaches
\* the catch clause of fetch
Throw(r, what) == Finish(r, req[r], loc[r], calls[r], what, RouterCatch)

----------------------------------------------------------------------------
(* Actions *)

Init ==
    /\ pc = [r \in Slots |-> "idle"]
    /\ req = [r \in Slots |-> NoReq]
    /\ loc = [r \in Slots |-> NoLoc]
    /\ calls = [r \in Slots |-> <<>>]
    /\ last = NoLast
    /\ db = <<>>
    /\ vectors = NoVectors
    /\ now = 0
    /\ nextUuid = 0
    /\ answered = <<>>
    /\ drawer = [d \in Drawers |-> FirstRender]

\* src/api/documents.ts:41: path.split('/')[3]
IdOf(path) == At(Split(path, Slash), 3)

AnsweredIds == {answered[k].id : k \in 1..Len(answered)}

\* the ids requests in flight other than r have drawn
HeldIds(r) ==
    {loc[r2].id : r2 \in {x \in Slots :
                            x # r /\ pc[x] \in {"embed_doc", "upsert", "insert"}}}

\* fetch is entered with request q and runs to its first await, or to its end
\* when the request needs none (src/api/index.ts:15-42, documents.ts:4-10,
\* 40-43, 51-55, 60, search.ts:4-21)
Fetch(r, q) ==
    LET b == Route(q)
        l == [NoLoc EXCEPT
                !.id = IF b = "get" THEN IdOf(q.path) ELSE <<>>,
                !.limit = IF b = "search" THEN LimitOf(q) ELSE NaN,
                !.after = b = "get" /\ IdOf(q.path) \in AnsweredIds]
    IN
    /\ pc[r] = "idle"
    /\ CASE b = "preflight" -> Respond(r, q, l, <<>>, Preflight)
         [] b = "notfound" ->
                Respond(r, q, l, <<>>, RouterReturn(TextResponse("Not Found", 404)))
         [] b \in {"documents405", "search405"} ->
                Respond(r, q, l, <<>>,
                        RouterReturn(TextResponse("Method not allowed", 405)))
         [] b = "search400" ->
                Respond(r, q, l, <<>>, RouterReturn(
                        JsonResponse([error |-> "Missing query parameter"], 400)))
         [] b = "create" -> Suspend(r, "json", q, l, <<>>)
         [] b = "get" ->
                Suspend(r, "first", q, l, <<Call("DB.first", l.id, "", NaN)>>)
         [] b = "list" ->
                Suspend(r, "all", q, l, <<Call("DB.all", <<>>, "", NaN)>>)
         [] b = "search" ->
                Suspend(r, "embed_query", q, l, <<Call("AI.run", <<>>, q.q.val, NaN)>>)
    /\ UNCHANGED <<db, vectors, now, nextUuid, answered, drawer>>

\* (mutant) a body that does not parse is taken for an empty object
JsonReturnLenient(r) ==
    /\ pc[r] = "json"
    /\ Suspend(r, "embed_doc", req[r],
            [loc[r] EXCEPT !.id = RandomUUID(nextUuid),
                           !.has = req[r].body.has,
                           !.title = req[r].body.title,
                           !.content = req[r].body.content,
                           !.fresh = TRUE],
            Append(calls[r], Call("AI.run", <<>>, req[r].body.content, NaN)))
    /\ nextUuid' = nextUuid + 1
    /\ UNCHANGED <<db, vectors, now, answered, drawer>>

\* src/api/documents.ts:10-17: request.json() settles; the body is destructured,
\* the id drawn and the embedding asked for
JsonReturn(r) ==
    /\ pc[r] = "json"
    /\ IF req[r].body.kind = "object"
       THEN /\ Suspend(r, "embed_doc", req[r],
                    [loc[r] EXCEPT
                        !.id = RandomUUID(nextUuid),
                        !.has = req[r].body.has,
                        !.title = req[r].body.title,
                        !.content = req[r].body.content,
                        !.fresh = /\ ~HasRow(db, RandomUUID(nextUuid))
                                  /\ RandomUUID(nextUuid) \notin DOMAIN vectors
                                  /\ RandomUUID(nextUuid) \notin HeldIds(r)],
                    Append(calls[r], Call("AI.run", <<>>, req[r].body.content, NaN)))
            /\ nextUuid' = nextUuid + 1
       ELSE /\ Throw(r, "request.json")
            /\ UNCHANGED nextUuid
    /\ UNCHANGED <<db, vectors, now, answered, drawer>>

\* how env.AI.run may settle: it resolves to a vector, to data without a
\* vector or to no data, or it rejects
AiOutcomes == {"vector", "empty", "nodata", "throw"}

AiResult(out, text) ==
    [hasData |-> out # "nodata",
     data |-> IF out = "vector" THEN <<Embed(text)>> ELSE <<>>]

\* (mutant) only embedding.data is tested
NoEmbeddingDataOnly(embedding) == ~embedding.hasData

\* src/api/documents.ts:19, src/api/search.ts:23:
\* !embedding.data || !embedding.data[0]
NoEmbedding(embedding) == ~embedding.hasData \/ Len(embedding.data) = 0

\* embedding.data[0]
Values(embedding) == At(embedding.data, 0)

\* (mutant) the embedding failure is reported as the generic error
EmbeddingFailureGeneric == JsonResponse([error |-> "Internal server error"], 500)

\* src/api/documents.ts:20, src/api/search.ts:24
EmbeddingFailure == JsonResponse([error |-> "Failed to generate embedding"], 500)

\* src/api/documents.ts:15-28: AI.run settles for a create; without a vector
\* the handler answers 500, with one it upserts the vector
EmbedDocReturn(r, out) ==
    /\ pc[r] = "embed_doc"
    /\ IF out = "throw" THEN Throw(r, "AI.run")
       ELSE LET l == [loc[r] EXCEPT !.embedding = AiResult(out, loc[r].content)] IN
            IF NoEmbedding(l.embedding)
            THEN Respond(r, req[r], l, calls[r], RouterReturn(EmbeddingFailure))
            ELSE Suspend(r, "upsert", req[r], l,
                    Append(calls[r],
                           Call("VECTORS.upsert", loc[r].id, loc[r].title, NaN)))
    /\ UNCHANGED <<db, vectors, now, nextUuid, answered, drawer>>

\* (mutant) the INSERT binds the clock with the wrong sign
UpsertReturnNegatedClock(r, ok) ==
    /\ pc[r] = "upsert"
    /\ IF ok THEN
            /\ vectors' = VectorsUpsert(vectors,
                    [id |-> loc[r].id, values |-> Values(loc[r].embedding),
                     metadata |-> [hasTitle |-> "title" \in loc[r].has,
                                   title |-> loc[r].title]])
            /\ Suspend(r, "insert", req[r], [loc[r] EXCEPT !.created = 0 - now],
                    Append(calls[r], Call("DB.insert", loc[r].id, loc[r].title, NaN)))
       ELSE /\ Throw(r, "VECTORS.upsert")
            /\ UNCHANGED vectors
    /\ UNCHANGED <<db, now, nextUuid, answered, drawer>>

\* (mutant) the INSERT is issued whether or not the upsert succeeded
UpsertReturnUnchecked(r, ok) ==
    /\ pc[r] = "upsert"
    /\ vectors' =
            IF ok THEN VectorsUpsert(vectors,
                    [id |-> loc[r].id, values |-> Values(loc[r].embedding),
                     metadata |-> [hasTitle |-> "title" \in loc[r].has,
                                   title |-> loc[r].title]])
            ELSE vectors
    /\ Suspend(r, "insert", req[r], [loc[r] EXCEPT !.created = now],
            Append(calls[r], Call("DB.insert", loc[r].id, loc[r].title, NaN)))
    /\ UNCHANGED <<db, now, nextUuid, answered, drawer>>

\* (mutant) title is a variable the requests share: the INSERT binds the
\* title of the request of slot 1 while there is one
UpsertReturnSharedTitle(r, ok) ==
    /\ pc[r] = "upsert"
    /\ IF ok THEN
            /\ vectors' = VectorsUpsert(vectors,
                    [id |-> loc[r].id, values |-> Values(loc[r].embedding),
                     metadata |-> [hasTitle |-> "title" \in loc[r].has,
                                   title |-> loc[r].title]])
            /\ Suspend(r, "insert", req[r],
                    [loc[r] EXCEPT !.created = now,
                                   !.title = IF req[1].body.kind = "object"
                                             THEN req[1].body.title ELSE @],
                    Append(calls[r], Call("DB.insert", loc[r].id, loc[r].title, NaN)))
       ELSE /\ Throw(r, "VECTORS.upsert")
            /\ UNCHANGED vectors
    /\ UNCHANGED <<db, now, nextUuid, answered, drawer>>

\* src/api/documents.ts:24-34: VECTORS.upsert settles; the clock is read and the
\* INSERT is issued
UpsertReturn(r, ok) ==
    /\ pc[r] = "upsert"
    /\ IF ok THEN
            /\ vectors' = VectorsUpsert(vectors,
                    [id |-> loc[r].id, values |-> Values(loc[r].embedding),
                     metadata |-> [hasTitle |-> "title" \in loc[r].has,
                                   title |-> loc[r].title]])
            /\ Suspend(r, "insert", req[r], [loc[r] EXCEPT !.created = now],
                    Append(calls[r], Call("DB.insert", loc[r].id, loc[r].title, NaN)))
       ELSE /\ Throw(r, "VECTORS.upsert")
            /\ UNCHANGED vectors
    /\ UNCHANGED <<db, now, nextUuid, answered, drawer>>

\* (mutant) title and content bound in the wrong order
RowOfCreateSwapped(l) ==
    [id |-> l.id, title |-> l.content, content |-> l.title, vector_id |-> l.id,
     created |-> l.created]

\* the row the INSERT of src/api/documents.ts:31-34 binds
RowOfCreate(l) ==
    [id |-> l.id, title |-> l.title, content |-> l.content, vector_id |-> l.id,
     created |-> l.created]

\* (mutant) the answer echoes the content as title
CreateResponseSwapped(l) ==
    JsonResponse([id |-> l.id, title |-> l.content, content |-> l.title], 200)

\* src/api/documents.ts:36: the answer to a create
CreateResponse(l) ==
    JsonResponse([id |-> l.id, title |-> l.title, content |-> l.content], 200)

\* (mutant) the INSERT replaces the rows of the table
InsertReturnReplacing(r, ok) ==
    /\ pc[r] = "insert"
    /\ IF ok /\ NotNull(loc[r].has) THEN
            /\ db' = <<RowOfCreate(loc[r])>>
            /\ Respond(r, req[r], loc[r], calls[r], RouterReturn(CreateResponse(loc[r])))
            /\ answered' = Append(answered,
                    [id |-> loc[r].id, title |-> req[r].body.title,
                     content |-> req[r].body.content])
       ELSE /\ Throw(r, "DB.insert")
            /\ UNCHANGED <<db, answered>>
    /\ UNCHANGED <<vectors, now, nextUuid, drawer>>

\* (mutant) a refused INSERT takes the vector back
InsertReturnCompensating(r, ok) ==
    /\ pc[r] = "insert"
    /\ IF ok /\ NotNull(loc[r].has) /\ InsertAccepted(db, RowOfCreate(loc[r])) THEN
            /\ db' = Append(db, RowOfCreate(loc[r]))
            /\ Respond(r, req[r], loc[r], calls[r], RouterReturn(CreateResponse(loc[r])))
            /\ answered' = Append(answered,
                    [id |-> loc[r].id, title |-> req[r].body.title,
                     content |-> req[r].body.content])
            /\ UNCHANGED vectors
       ELSE /\ Throw(r, "DB.insert")
            /\ vectors' = [i \in DOMAIN vectors \ {loc[r].id} |-> vectors[i]]
            /\ UNCHANGED <<db, answered>>
    /\ UNCHANGED <<now, nextUuid, drawer>>

\* (mutant) the INSERT writes nothing and the create is answered 200
InsertReturnLost(r, ok) ==
    /\ pc[r] = "insert"
    /\ Respond(r, req[r], loc[r], calls[r], RouterReturn(CreateResponse(loc[r])))
    /\ answered' = Append(answered,
            [id |-> loc[r].id, title |-> req[r].body.title,
             content |-> req[r].body.content])
    /\ UNCHANGED <<db, vectors, now, nextUuid, drawer>>

\* src/api/documents.ts:31-36: the INSERT settles and the handler answers
InsertReturn(r, ok) ==
    /\ pc[r] = "insert"
    /\ IF ok /\ NotNull(loc[r].has) /\ InsertAccepted(db, RowOfCreate(loc[r])) THEN
            /\ db' = Append(db, RowOfCreate(loc[r]))
            /\ Respond(r, req[r], loc[r], calls[r], RouterReturn(CreateResponse(loc[r])))
            /\ answered' = Append(answered,
                    [id |-> loc[r].id, title |-> req[r].body.title,
                     content |-> req[r].body.content])
       ELSE /\ Throw(r, "DB.insert")
            /\ UNCHANGED <<db, answered>>
    /\ UNCHANGED <<vectors, now, nextUuid, drawer>>

\* (mutant) the lookup answers without testing for a row
GetResponseUnchecked(document) == JsonResponse(document, 200)

\* src/api/documents.ts:45-47: the answer to a lookup
GetResponse(document) ==
    IF document # <<>> THEN JsonResponse(document[1], 200)
    ELSE TextResponse("Not Found", 404)

\* src/api/documents.ts:42-47: the lookup settles
FirstReturn(r, ok) ==
    /\ pc[r] = "first"
    /\ IF ok
       THEN Respond(r, req[r], loc[r], calls[r],
                    RouterReturn(GetResponse(SelectFirst(db, loc[r].id))))
       ELSE Throw(r, "DB.first")
    /\ UNCHANGED <<db, vectors, now, nextUuid, answered, drawer>>

\* how the listing may settle: with the rows in one of the orders, or rejecting
AllOutcomes == TieOrders \cup {"throw"}

\* src/api/documents.ts:52-57: the listing settles
AllReturn(r, tie) ==
    /\ pc[r] = "all"
    /\ IF tie # "throw"
       THEN Respond(r, req[r], loc[r], calls[r], RouterReturn(
                    JsonResponse([documents |-> SelectList(db, tie)], 200)))
       ELSE Throw(r, "DB.all")
    /\ UNCHANGED <<db, vectors, now, nextUuid, answered, drawer>>

\* (mutant) the search stores the vector of the query in the index
EmbedQueryReturnStoring(r, out) ==
    /\ pc[r] = "embed_query"
    /\ IF out = "throw" THEN Throw(r, "AI.run") /\ UNCHANGED vectors
       ELSE LET l == [loc[r] EXCEPT !.embedding = AiResult(out, req[r].q.val)] IN
            IF NoEmbedding(l.embedding)
            THEN /\ Respond(r, req[r], l, calls[r], RouterReturn(EmbeddingFailure))
                 /\ UNCHANGED vectors
            ELSE /\ Suspend(r, "query", req[r], l,
                    Append(calls[r], Call("VECTORS.query", <<>>, req[r].q.val,
                                          TopK(loc[r].limit))))
                 /\ vectors' = VectorsUpsert(vectors,
                        [id |-> <<Ch("query")>>, values |-> Values(l.embedding),
                         metadata |-> [hasTitle |-> FALSE, title |-> ""]])
    /\ UNCHANGED <<db, now, nextUuid, answered, drawer>>

\* src/api/search.ts:19-31: AI.run settles for a search
EmbedQueryReturn(r, out) ==
    /\ pc[r] = "embed_query"
    /\ IF out = "throw" THEN Throw(r, "AI.run")
       ELSE LET l == [loc[r] EXCEPT !.embedding = AiResult(out, req[r].q.val)] IN
            IF NoEmbedding(l.embedding)
            THEN Respond(r, req[r], l, calls[r], RouterReturn(EmbeddingFailure))
            ELSE Suspend(r, "query", req[r], l,
                    Append(calls[r], Call("VECTORS.query", <<>>, req[r].q.val,
                                          TopK(loc[r].limit))))
    /\ UNCHANGED <<db, vectors, now, nextUuid, answered, drawer>>

\* the match lists the index may answer a query for topK with
QueryAnswers(index, queryVector, topK) ==
    IF topK.nan \/ topK.val < 1 THEN {<<>>}
    ELSE Matches(index, queryVector, topK.val)

\* how VECTORS.query may settle for the request of slot r: with matches, or
\* rejecting
QueryOutcomes(r) ==
    {[ok |-> FALSE, matches |-> <<>>]} \cup
    {[ok |-> TRUE, matches |-> m] :
        m \in QueryAnswers(vectors, Values(loc[r].embedding), TopK(loc[r].limit))}

\* src/api/search.ts:34-42
SearchResults(matches) ==
    [k \in 1..Len(matches) |->
        [id |-> matches[k].id, title |-> TitleOr(matches[k].metadata),
         similarity |-> matches[k].score]]

\* src/api/search.ts:28-47: VECTORS.query settles and the handler answers
QueryReturn(r, out) ==
    /\ pc[r] = "query"
    /\ IF out.ok
       THEN Respond(r, req[r], [loc[r] EXCEPT !.matches = out.matches], calls[r],
                    RouterReturn(JsonResponse(
                        [query |-> req[r].q.val,
                         results |-> SearchResults(out.matches)], 200)))
       ELSE Throw(r, "VECTORS.query")
    /\ UNCHANGED <<db, vectors, now, nextUuid, answered, drawer>>

\* a second passes on the server clock
Tick ==
    /\ now' = now + 1
    /\ last' = NoLast
    /\ UNCHANGED <<pc, req, loc, calls, db, vectors, nextUuid, answered, drawer>>

----------------------------------------------------------------------------
(* Specifications *)

DocPath(i) == PathDocumentsSlash \o UuidStr(i)

Get(path) == Request("GET", path, NoBody, NoQ, NoLimit)
Create(t, c) == Request("POST", PathDocuments, ObjBody(t, c), NoQ, NoLimit)
Search(q, limit) == Request("GET", PathSearch, NoBody, q, limit)

\* creates that have not drawn their id yet
AwaitingJson == Cardinality({r \in Slots : pc[r] = "json"})

\* a request is taken in while the creates stay within maxIds
\* (slots are interchangeable: a request takes the lowest free one)
Arrive(r, q, maxIds) ==
    /\ \A r2 \in 1..(r - 1) : pc[r2] # "idle"
    /\ Route(q) = "create" => nextUuid + AwaitingJson < maxIds
    /\ Fetch(r, q)

\* Spec: NumSlots requests at once: creates, lookups of the first document and
\* searches, every binding call free to reject; the clock stands
ConcRequests ==
    {Create("T1", "c1"), Create("T2", "c2"), Get(DocPath(1)),
     Search(Q("hello"), NoLimit)}

Next ==
    \E r \in Slots :
        \/ \E q \in ConcRequests : Arrive(r, q, MaxIds)
        \/ JsonReturn(r)
        \/ \E out \in AiOutcomes : EmbedDocReturn(r, out)
        \/ \E ok \in BOOLEAN : UpsertReturn(r, ok)
        \/ \E ok \in BOOLEAN : InsertReturn(r, ok)
        \/ \E ok \in BOOLEAN : FirstReturn(r, ok)
        \/ \E out \in AiOutcomes : EmbedQueryReturn(r, out)
        \/ \E out \in QueryOutcomes(r) : QueryReturn(r, out)

Spec == Init /\ [][Next]_vars

\* SpecRouter: one request at a time, of every method, path, body and query;
\* the clock stands
Methods == {"GET", "POST", "OPTIONS", "PUT", "DELETE"}

OtherPaths ==
    {PathDocumentsSlash, PathDocuments \o <<Ch("x")>>,
     DocPath(1) \o <<Slash, Ch("x")>>, PathSearch \o <<Slash>>,
     <<Slash>>, <<Slash, Ch("api")>>}
        \cup {DocPath(i) : i \in 1..MaxIds}

Limits ==
    {NoLimit, Limit(<<>>), Limit(<<Digit(0)>>), Limit(<<Ch("-"), Digit(5)>>),
     Limit(<<Ch("a")>>), Limit(<<Digit(1)>>), Limit(<<Digit(3)>>),
     Limit(<<Digit(1), Digit(0), Digit(0)>>)}

RouterRequests ==
    {Request(m, p, NoBody, NoQ, NoLimit) : m \in Methods, p \in OtherPaths}
        \cup {Request(m, PathDocuments, b, NoQ, NoLimit) :
                m \in Methods, b \in {NoBody, InvalidBody, ObjBody("T1", "c1"),
                                      ObjBody("T2", "c2")}}
        \cup {Request(m, PathSearch, NoBody, q, NoLimit) :
                m \in Methods, q \in {NoQ, Q("hello")}}
        \cup {Search(q, l) :
                q \in {NoQ, Q("")}, l \in Limits}
        \cup {Search(Q("hello"), l) : l \in Limits}

NextRouter ==
    \/ \E q \in RouterRequests : Arrive(1, q, MaxIds)
    \/ JsonReturn(1)
    \/ \E out \in AiOutcomes : EmbedDocReturn(1, out)
    \/ \E ok \in BOOLEAN : UpsertReturn(1, ok)
    \/ \E ok \in BOOLEAN : InsertReturn(1, ok)
    \/ \E ok \in BOOLEAN : FirstReturn(1, ok)
    \/ \E tie \in AllOutcomes : AllReturn(1, tie)
    \/ \E out \in AiOutcomes : EmbedQueryReturn(1, out)
    \/ \E out \in QueryOutcomes(1) : QueryReturn(1, out)

SpecRouter == Init /\ [][NextRouter]_vars

\* SpecList: creates that succeed and listings, one after the other, until the
\* table holds more rows than the listing window
NextList ==
    \/ \E q \in {Create("T1", "c1"), Get(PathDocuments)} : Arrive(1, q, MaxListRows)
    \/ JsonReturn(1)
    \/ EmbedDocReturn(1, "vector")
    \/ UpsertReturn(1, TRUE)
    \/ InsertReturn(1, TRUE)
    \/ \E tie \in AllOutcomes : AllReturn(1, tie)
    \/ now < MaxClock /\ Tick

SpecList == Init /\ [][NextList]_vars

\* SpecSearch: one request at a time: creates with a title, with an empty
\* title and without a title, and searches; the vector index may reject
SearchRequests ==
    {Create("T1", "c1"), Create("", "c1"),
     Request("POST", PathDocuments, TitlelessBody("c1"), NoQ, NoLimit),
     Search(Q("hello"), NoLimit), Search(Q("hello"), Limit(<<Digit(1)>>))}

NextSearch ==
    \/ \E q \in SearchRequests : Arrive(1, q, MaxIds)
    \/ JsonReturn(1)
    \/ EmbedDocReturn(1, "vector")
    \/ UpsertReturn(1, TRUE)
    \/ InsertReturn(1, TRUE)
    \/ EmbedQueryReturn(1, "vector")
    \/ \E out \in QueryOutcomes(1) : QueryReturn(1, out)

SpecSearch == Init /\ [][NextSearch]_vars

\* SpecClock: NumSlots creates at once, all their calls succeeding, while the
\* clock advances
NextClock ==
    \/ \E r \in Slots :
        \/ Arrive(r, Create("T1", "c1"), MaxIds)
        \/ JsonReturn(r)
        \/ EmbedDocReturn(r, "vector")
        \/ UpsertReturn(r, TRUE)
        \/ InsertReturn(r, TRUE)
    \/ now < MaxClock /\ Tick

SpecClock == Init /\ [][NextClock]_vars

\* SpecReaders: NumSlots requests at once: creates, lookups, listings and
\* searches; no call rejects and the embedding provider always gives a vector
ReaderRequests ==
    {Create("T1", "c1"), Get(DocPath(1)), Get(PathDocuments),
     Search(Q("hello"), NoLimit)}

NextReaders ==
    \E r \in Slots :
        \/ \E q \in ReaderRequests : Arrive(r, q, MaxIds)
        \/ JsonReturn(r)
        \/ EmbedDocReturn(r, "vector")
        \/ UpsertReturn(r, TRUE)
        \/ InsertReturn(r, TRUE)
        \/ FirstReturn(r, TRUE)
        \/ \E tie \in TieOrders : AllReturn(r, tie)
        \/ EmbedQueryReturn(r, "vector")
        \/ \E out \in QueryOutcomes(r) : out.ok /\ QueryReturn(r, out)

SpecReaders == Init /\ [][NextReaders]_vars

\* SpecRouterLive: SpecRouter where every awaited call settles in the end
Settle(r) ==
    \/ JsonReturn(r)
    \/ \E out \in AiOutcomes : EmbedDocReturn(r, out)
    \/ \E ok \in BOOLEAN : UpsertReturn(r, ok)
    \/ \E ok \in BOOLEAN : InsertReturn(r, ok)
    \/ \E ok \in BOOLEAN : FirstReturn(r, ok)
    \/ \E tie \in AllOutcomes : AllReturn(r, tie)
    \/ \E out \in AiOutcomes : EmbedQueryReturn(r, out)
    \/ \E out \in QueryOutcomes(r) : QueryReturn(r, out)

SpecRouterLive == SpecRouter /\ WF_vars(Settle(1))

----------------------------------------------------------------------------
(* Vocabulary of the claims *)

Answered == last.resp.kind # "none"

HasCors(response) ==
    /\ {"Access-Control-Allow-Origin", "Access-Control-Allow-Methods",
        "Access-Control-Allow-Headers"} \subseteq DOMAIN response.headers
    /\ response.headers["Access-Control-Allow-Origin"] = "*"
    /\ response.headers["Access-Control-Allow-Methods"] = "GET, POST, OPTIONS"
    /\ response.headers["Access-Control-Allow-Headers"] = "Content-Type"

IsJsonError(response, status, message) ==
    /\ response.status = status
    /\ response.kind = "json"
    /\ DOMAIN response.body = {"error"}
    /\ response.body.error = message

IsText(response, status, text) ==
    /\ response.status = status
    /\ response.kind = "text"
    /\ response.body = text

Called(c, dep) == \E k \in 1..Len(c) : c[k].dep = dep


\* the exchange completed is a POST to exactly /api/documents
LastIsCreate == last.req.method = "POST" /\ last.req.path = PathDocuments

----------------------------------------------------------------------------
(* C1..C10 *)

\* C1: every response fetch returns - preflight, handler success, handler
\* error, the router's 404 and the 500 after an exception - carries the three
\* CORS headers with exactly the specified values.
C1_CorsOnEveryResponse == Answered => HasCors(last.resp)

\* C1 witness: the 500 produced after a handler exception, with the headers.
C1_Witness == last.threw # "" /\ last.resp.status = 500 /\ HasCors(last.resp)

\* C2: when a call awaited while handling a request rejects, the response is
\* 500 with the JSON body {error: 'Internal server error'} and carries nothing
\* else than that body, its content type and the CORS headers; so does a
\* rejecting embedding provider.
C2_ExceptionGivesGeneric500 ==
    last.threw # "" =>
        /\ IsJsonError(last.resp, 500, "Internal server error")
        /\ DOMAIN last.resp.headers =
                {ContentType} \cup
                {"Access-Control-Allow-Origin", "Access-Control-Allow-Methods",
                 "Access-Control-Allow-Headers"}
        /\ last.req.method # "OPTIONS"

\* C2 witness: the embedding provider rejected during a create and the answer
\* is the generic 500, not the embedding-failure body.
C2_Witness ==
    /\ LastIsCreate
    /\ last.threw = "AI.run"
    /\ IsJsonError(last.resp, 500, "Internal server error")

\* C3: a request whose awaited calls all settle is answered: whenever a
\* request is in flight, fetch returns a response for it in the end.
C3_ResponseAlwaysProduced == (pc[1] # "idle") ~> (pc[1] = "idle" /\ Answered)

\* C3 witness: a request that issued binding calls, one of which rejected, has
\* been answered.
C3_Witness == Answered /\ Len(last.calls) >= 2 /\ last.threw # ""

\* C4: in every reachable state, whatever the interleaving of the requests
\* and whichever calls reject, every row of documents has a vector index
\* entry with the same id.
C4_RowHasVector == \A k \in 1..Len(db) : db[k].id \in DOMAIN vectors

\* C4 witness: a row is visible while another create sits between its upsert
\* and its insert.
C4_Witness == Len(db) >= 1 /\ \E r \in Slots : pc[r] = "insert"

\* the create completed got no usable vector from the embedding provider
NoVectorCreate ==
    /\ LastIsCreate
    /\ last.threw = ""
    /\ Called(last.calls, "AI.run")
    /\ (~last.loc.embedding.hasData \/ last.loc.embedding.data = <<>>)

\* C5: a create whose embedding call returns no usable vector is answered 500
\* with exactly {error: 'Failed to generate embedding'}; it never calls
\* VECTORS.upsert nor the INSERT, and no step of it changes the vector index
\* or the table.
C5_EmbeddingFailureWritesNothing ==
    /\ [](NoVectorCreate =>
            /\ IsJsonError(last.resp, 500, "Failed to generate embedding")
            /\ ~Called(last.calls, "VECTORS.upsert")
            /\ ~Called(last.calls, "DB.insert"))
    /\ [][pc[1] \in {"idle", "json", "embed_doc"} =>
            (db' = db /\ vectors' = vectors)]_vars

\* C5 witness: the provider returned data without a first vector, after an
\* earlier create had stored a document.
C5_Witness ==
    /\ NoVectorCreate
    /\ last.loc.embedding.hasData
    /\ last.resp.status = 500
    /\ Len(db) >= 1

\* the create completed had its embedding, its upsert and its insert succeed
SuccessfulCreate ==
    /\ LastIsCreate
    /\ last.req.body.kind = "object"
    /\ last.threw = ""
    /\ last.loc.embedding.hasData
    /\ last.loc.embedding.data # <<>>

\* C6: a create whose three calls succeed is answered 200 with {id, title,
\* content} echoing the submitted title and content; it makes exactly one
\* embedding call, on content, one upsert and one insert, and the upserted id,
\* the inserted id and the id of the response are the one freshly drawn id.
C6_CreateSuccess ==
    SuccessfulCreate =>
        /\ last.resp.status = 200
        /\ last.resp.kind = "json"
        /\ last.resp.body =
                [id |-> last.loc.id, title |-> last.req.body.title,
                 content |-> last.req.body.content]
        /\ last.calls =
                <<Call("AI.run", <<>>, last.req.body.content, NaN),
                  Call("VECTORS.upsert", last.loc.id, last.req.body.title, NaN),
                  Call("DB.insert", last.loc.id, last.req.body.title, NaN)>>
        /\ last.loc.fresh
        /\ HasRow(db, last.loc.id)
        /\ last.loc.id \in DOMAIN vectors

\* C6 witness: the second create that succeeds.
C6_Witness == SuccessfulCreate /\ last.resp.status = 200 /\ Len(db) = 2

\* the exchange completed is a GET of /api/documents/{id}
LastIsGetById ==
    /\ Answered
    /\ last.req.method = "GET"
    /\ StartsWith(last.req.path, PathDocumentsSlash)

\* what the creates answered for the id
AnsweredFor(id) == answered[CHOOSE k \in 1..Len(answered) : answered[k].id = id]

\* the response is 200 with the full stored row of the id, whose title and
\* content are those submitted
IsStoredRow(response, id) ==
    /\ response.status = 200
    /\ response.kind = "json"
    /\ DOMAIN response.body = {"id", "title", "content", "vector_id", "created"}
    /\ HasRow(db, id)
    /\ response.body = RowOf(db, id)
    /\ response.body.id = id
    /\ response.body.title = AnsweredFor(id).title
    /\ response.body.content = AnsweredFor(id).content

\* C7, as claimed: every GET of an id that arrives after the create of that
\* id was answered 200 returns 200 with the stored row.
C7_Original == (LastIsGetById /\ last.loc.after) => IsStoredRow(last.resp, last.loc.id)

\* C7, amended: every such GET whose lookup does not reject returns 200 with
\* the full stored row, title and content exactly as submitted.
C7_RoundTrip ==
    (LastIsGetById /\ last.loc.after /\ last.threw = "") =>
        IsStoredRow(last.resp, last.loc.id)

\* C7 witness: the first document is read back after a second one was created.
C7_Witness ==
    /\ LastIsGetById
    /\ last.loc.after
    /\ last.loc.id = UuidStr(1)
    /\ last.resp.status = 200
    /\ Len(db) = 2

\* requests that have drawn their id
Drawn == {r \in Slots : pc[r] \in {"embed_doc", "upsert", "insert"}}

\* C8: no two rows of documents share an id, no two creates were answered with
\* the same id, no two requests in flight hold the same id, and every id was
\* drawn fresh: in no store and held by no other request.
C8_UniqueIds ==
    /\ \A j, k \in 1..Len(db) : j # k => db[j].id # db[k].id
    /\ \A j, k \in 1..Len(answered) : j # k => answered[j].id # answered[k].id
    /\ \A r1, r2 \in Drawn : r1 # r2 => loc[r1].id # loc[r2].id
    /\ \A r \in Drawn : loc[r].fresh

\* C8 witness: two creates in flight at once, both with their id drawn, one
\* of them past its upsert.
C8_Witness ==
    \E r1, r2 \in Drawn :
        r1 # r2 /\ pc[r1] = "insert" /\ loc[r1].id \in DOMAIN vectors

\* C9, as claimed: a GET of an id no row has is answered 404 'Not Found' in
\* plain text, with no call of the embedding provider or the vector index.
C9_Original ==
    (LastIsGetById /\ ~HasRow(db, last.loc.id)) =>
        /\ IsText(last.resp, 404, "Not Found")
        /\ \A k \in 1..Len(last.calls) : last.calls[k].dep = "DB.first"

\* C9, amended: so is every such GET whose lookup does not reject.
C9_UnknownIdIs404 ==
    (LastIsGetById /\ ~HasRow(db, last.loc.id) /\ last.threw = "") =>
        /\ IsText(last.resp, 404, "Not Found")
        /\ \A k \in 1..Len(last.calls) : last.calls[k].dep = "DB.first"

\* C9 witness: the id segment is empty, the table is not.
C9_Witness ==
    /\ LastIsGetById
    /\ last.req.path = PathDocumentsSlash
    /\ last.loc.id = <<>>
    /\ last.resp.status = 404
    /\ Len(db) >= 1

\* the exchange completed is a GET of exactly /api/documents
LastIsList ==
    Answered /\ last.req.method = "GET" /\ last.req.path = PathDocuments

Listed(d, id) == \E k \in 1..Len(d) : d[k].id = id

\* the response is 200 {documents} with min(50, rows) entries, each the id,
\* title and created of a row, in non-increasing order of created, no row left
\* out being newer than a row listed
IsListing(response) ==
    /\ response.status = 200
    /\ response.kind = "json"
    /\ DOMAIN response.body = {"documents"}
    /\ LET d == response.body.documents IN
        /\ Len(d) = IF Len(db) < 50 THEN Len(db) ELSE 50
        /\ \A k \in 1..Len(d) :
            /\ DOMAIN d[k] = {"id", "title", "created"}
            /\ HasRow(db, d[k].id)
            /\ d[k].title = RowOf(db, d[k].id).title
            /\ d[k].created = RowOf(db, d[k].id).created
        /\ \A j, k \in 1..Len(d) : j < k =>
            /\ d[j].id # d[k].id
            /\ d[j].created >= d[k].created
        /\ \A j \in 1..Len(db) : ~Listed(d, db[j].id) =>
            \A k \in 1..Len(d) : d[k].created >= db[j].created

\* C10, as claimed: GET /api/documents is answered 200 with the listing.
C10_Original == LastIsList => IsListing(last.resp)

\* C10, amended: it is whenever the SELECT does not reject.
C10_Listing == (LastIsList /\ last.threw = "") => IsListing(last.resp)

\* C10 witness: 51 rows created in different seconds, 50 of them listed.
C10_Witness ==
    /\ LastIsList
    /\ Len(db) = 51
    /\ db[1].created < db[51].created
    /\ last.resp.status = 200
    /\ Len(last.resp.body.documents) = 50

\* C11: a listing whose SELECT resolved has exactly the N rows stored, newest
\* first, while N <= 50; once the 51st create has succeeded it has 50 entries
\* and the one document missing from it is the first one created, also when
\* documents were created within the same second.
C11_ListingWindow ==
    (LastIsList /\ last.threw = "") =>
        LET d == last.resp.body.documents IN
            /\ Len(db) <= 50 =>
                /\ Len(d) = Len(db)
                /\ \A j, k \in 1..Len(d) : j < k => d[j].created >= d[k].created
            /\ Len(db) = 51 =>
                /\ Len(d) = 50
                /\ \A j \in 1..51 : Listed(d, db[j].id) <=> j # 1

\* C11 witness: with 51 documents stored the listing leaves out one that is
\* not the first created, of the same second as the first.
C11_Witness ==
    /\ LastIsList
    /\ last.threw = ""
    /\ Len(db) = 51
    /\ Listed(last.resp.body.documents, db[1].id)
    /\ \E j \in 2..51 :
        /\ ~Listed(last.resp.body.documents, db[j].id)
        /\ db[j].created = db[1].created

\* the exchange completed is a GET of exactly /api/search
LastIsSearch ==
    Answered /\ last.req.method = "GET" /\ last.req.path = PathSearch

\* C12: a GET /api/search without the q parameter is answered 400 with the
\* JSON body {error: 'Missing query parameter'} and calls no binding, whatever
\* limit is.
C12_MissingQueryIs400 ==
    (LastIsSearch /\ ~last.req.q.present) =>
        /\ IsJsonError(last.resp, 400, "Missing query parameter")
        /\ last.calls = <<>>
        /\ last.threw = ""

\* C12 witness: q is missing and limit is not a number, with a document stored.
C12_Witness ==
    /\ LastIsSearch
    /\ ~last.req.q.present
    /\ last.req.limit = Limit(<<Ch("a")>>)
    /\ last.resp.status = 400
    /\ Len(db) >= 1

\* the exchange completed is a search that queried the vector index
LastQueried == LastIsSearch /\ Called(last.calls, "VECTORS.query")

\* the topK of the query of the exchange completed
LastTopK ==
    last.calls[CHOOSE k \in 1..Len(last.calls) :
                    last.calls[k].dep = "VECTORS.query"].n

\* limit parameters that are integers, with their value
IntegerLimits ==
    {[text |-> <<Digit(0)>>, n |-> 0],
     [text |-> <<Ch("-"), Digit(5)>>, n |-> 0 - 5],
     [text |-> <<Digit(1)>>, n |-> 1],
     [text |-> <<Digit(3)>>, n |-> 3],
     [text |-> <<Digit(1), Digit(0), Digit(0)>>, n |-> 100]}

\* C13: a search with q present and a usable embedding asks the vector index
\* for min(limit, 20) neighbours, limit being 10 when the parameter is absent;
\* the number asked for never exceeds 20, and no answer has more than 20
\* results.
C13_TopKIsMinLimit20 ==
    LastQueried =>
        /\ ~last.req.limit.present => LastTopK = Num(10)
        /\ \A e \in IntegerLimits :
            last.req.limit = Limit(e.text) =>
                LastTopK = Num(IF e.n < 20 THEN e.n ELSE 20)
        /\ ~(~LastTopK.nan /\ LastTopK.val > 20)
        /\ last.resp.status = 200 => Len(last.resp.body.results) <= 20

\* C13 witness: limit=100 asks the index for 20 and the search is answered
\* with the documents it holds.
C13_Witness ==
    /\ LastQueried
    /\ last.req.limit = Limit(<<Digit(1), Digit(0), Digit(0)>>)
    /\ LastTopK = Num(20)
    /\ last.resp.status = 200
    /\ Len(last.resp.body.results) = 2

\* the search completed was answered from the matches of the index
SuccessfulSearch == LastQueried /\ last.threw = ""

\* the response is 200 {query, results} with the query as submitted and one
\* {id, title, similarity} per match, in the order of the matches, id and
\* score as the index gave them and the titles as given
IsSearchAnswer(response, titles) ==
    LET m == last.loc.matches IN
    /\ response.status = 200
    /\ response.kind = "json"
    /\ DOMAIN response.body = {"query", "results"}
    /\ response.body.query = last.req.q.val
    /\ Len(response.body.results) = Len(m)
    /\ \A k \in 1..Len(m) :
        /\ DOMAIN response.body.results[k] = {"id", "title", "similarity"}
        /\ response.body.results[k].id = m[k].id
        /\ response.body.results[k].similarity = m[k].score
        /\ m[k].score = Score(vectors[m[k].id].values, Values(last.loc.embedding))
        /\ response.body.results[k].title = titles[k]

\* the title of the metadata, 'Untitled' when it has none
TitleOrUntitled(metadata) ==
    IF metadata.hasTitle THEN metadata.title ELSE "Untitled"

\* the title of the metadata, 'Untitled' when it has none or an empty one
NonEmptyTitleOrUntitled(metadata) ==
    IF metadata.hasTitle /\ metadata.title # "" THEN metadata.title
    ELSE "Untitled"

\* C14, as claimed: every successful search is answered 200 {query, results},
\* one entry per match in order, id and score passed through, the title being
\* the metadata's title, or 'Untitled' when the metadata has no title.
C14_Original ==
    SuccessfulSearch =>
        IsSearchAnswer(last.resp,
            [k \in 1..Len(last.loc.matches) |->
                TitleOrUntitled(last.loc.matches[k].metadata)])

\* C14, amended: the same, the title being 'Untitled' also when the
\* metadata's title is the empty string.
C14_SearchAnswer ==
    SuccessfulSearch =>
        IsSearchAnswer(last.resp,
            [k \in 1..Len(last.loc.matches) |->
                NonEmptyTitleOrUntitled(last.loc.matches[k].metadata)])

\* C14 witness: limit=1 with two entries in the index gives one result, and
\* the match has metadata without a title.
C14_Witness ==
    /\ SuccessfulSearch
    /\ last.req.limit = Limit(<<Digit(1)>>)
    /\ Cardinality(DOMAIN vectors) = 2
    /\ Len(last.resp.body.results) = 1
    /\ ~last.loc.matches[1].metadata.hasTitle
    /\ last.resp.body.results[1].title = "Untitled"

\* the search completed got no usable vector from the embedding provider
NoVectorSearch ==
    /\ LastIsSearch
    /\ last.threw = ""
    /\ Called(last.calls, "AI.run")
    /\ (~last.loc.embedding.hasData \/ last.loc.embedding.data = <<>>)

\* C15: a search with q present whose embedding call returns no usable vector
\* is answered 500 with {error: 'Failed to generate embedding'}; the vector
\* index is not queried.
C15_SearchEmbeddingFailure ==
    NoVectorSearch =>
        /\ last.req.q.present
        /\ IsJsonError(last.resp, 500, "Failed to generate embedding")
        /\ last.calls = <<Call("AI.run", <<>>, last.req.q.val, NaN)>>

\* C15 witness: the provider returned no data at all, with a document stored.
C15_Witness ==
    /\ NoVectorSearch
    /\ ~last.loc.embedding.hasData
    /\ last.resp.status = 500
    /\ Len(db) >= 1

\* C16: every OPTIONS request, whatever its path, is answered in the step it
\* arrives with status 200, an empty body and the CORS headers; it never waits
\* for a handler, calls no binding and changes no store.
C16_Preflight ==
    /\ []((Answered /\ last.req.method = "OPTIONS") =>
            /\ last.resp.status = 200
            /\ last.resp.kind = "empty"
            /\ last.resp.body = ""
            /\ HasCors(last.resp)
            /\ last.calls = <<>>
            /\ last.threw = "")
    /\ [](\A r \in Slots : req[r].method # "OPTIONS")
    /\ [][last'.req.method = "OPTIONS" => (db' = db /\ vectors' = vectors)]_vars

\* C16 witness: a preflight of /api/documents carrying a body, with a document
\* stored.
C16_Witness ==
    /\ Answered
    /\ last.req.method = "OPTIONS"
    /\ last.req.path = PathDocuments
    /\ last.req.body.kind = "object"
    /\ last.resp.status = 200
    /\ Len(db) >= 1

\* the response is one only the Document Handler gives: the answer to a
\* binding call it made or to a call that rejected, or its 405
FromDocumentHandler ==
    \/ last.threw # ""
    \/ last.calls # <<>>
    \/ IsText(last.resp, 405, "Method not allowed")

\* the response is one only the Search Handler gives
FromSearchHandler ==
    \/ last.threw # ""
    \/ last.calls # <<>>
    \/ IsText(last.resp, 405, "Method not allowed")
    \/ IsJsonError(last.resp, 400, "Missing query parameter")

\* the response is the 404 of the router: no handler ran, no binding was called
RouterNotFound ==
    /\ IsText(last.resp, 404, "Not Found")
    /\ last.calls = <<>>
    /\ last.threw = ""

\* C17: a request that is not OPTIONS is routed by its path alone: to the
\* Document Handler when the path starts with /api/documents, whatever
\* follows, to the Search Handler when it is exactly /api/search, and otherwise
\* it is answered 404 'Not Found' in plain text without any handler or binding.
C17_RoutingByPath ==
    (Answered /\ last.req.method # "OPTIONS") =>
        IF Len(last.req.path) >= Len(PathDocuments)
            /\ SubSeq(last.req.path, 1, Len(PathDocuments)) = PathDocuments
        THEN FromDocumentHandler /\ ~RouterNotFound
        ELSE IF last.req.path = PathSearch
        THEN FromSearchHandler /\ ~RouterNotFound
        ELSE RouterNotFound

\* C17 witness: GET /api/documentsx goes to the Document Handler, which
\* answers 405, with a document stored.
C17_Witness ==
    /\ Answered
    /\ last.req.method = "GET"
    /\ last.req.path = PathDocuments \o <<Ch("x")>>
    /\ last.resp.status = 405
    /\ Len(db) >= 1

\* the request r is for the Document Handler and is none of its operations:
\* not a POST of exactly /api/documents, not a GET of /api/documents or of
\* /api/documents/{id}
UnsupportedOnDocuments(r) ==
    /\ r.method # "OPTIONS"
    /\ StartsWith(r.path, PathDocuments)
    /\ ~(r.method = "POST" /\ r.path = PathDocuments)
    /\ ~(r.method = "GET" /\ r.path = PathDocuments)
    /\ ~(r.method = "GET" /\ StartsWith(r.path, PathDocumentsSlash))

\* C18: a request to the Document Handler that is none of its operations is
\* answered 405 in plain text; it calls no binding and changes no store.
C18_DocumentsMethodNotAllowed ==
    /\ []((Answered /\ UnsupportedOnDocuments(last.req)) =>
            /\ IsText(last.resp, 405, "Method not allowed")
            /\ last.calls = <<>>
            /\ last.threw = "")
    /\ [](\A r \in Slots : ~UnsupportedOnDocuments(req[r]))
    /\ [][UnsupportedOnDocuments(last'.req) =>
            (db' = db /\ vectors' = vectors)]_vars

\* C18 witness: a POST to the path of a stored document.
C18_Witness ==
    /\ Answered
    /\ last.req.method = "POST"
    /\ last.req.path = DocPath(1)
    /\ HasRow(db, UuidStr(1))
    /\ last.resp.status = 405

\* C19: a request to /api/search whose method is neither GET nor OPTIONS is
\* answered 405 in plain text, with or without q (the method is tested before
\* q), and calls no binding.
C19_SearchMethodNotAllowed ==
    (Answered /\ last.req.path = PathSearch
        /\ last.req.method \notin {"GET", "OPTIONS"}) =>
            /\ IsText(last.resp, 405, "Method not allowed")
            /\ last.calls = <<>>
            /\ last.threw = ""

\* C19 witness: a POST to /api/search without q, with a document stored.
C19_Witness ==
    /\ Answered
    /\ last.req.path = PathSearch
    /\ last.req.method = "POST"
    /\ ~last.req.q.present
    /\ last.resp.status = 405
    /\ Len(db) >= 1

\* C20: a POST /api/documents whose body is not valid JSON is answered by the
\* catch clause of the router: 500 {error: 'Internal server error'} with the
\* CORS headers; no binding is called and no store changes.
C20_InvalidJsonIs500 ==
    /\ []((LastIsCreate /\ last.req.body.kind = "invalid") =>
            /\ last.threw = "request.json"
            /\ IsJsonError(last.resp, 500, "Internal server error")
            /\ HasCors(last.resp)
            /\ last.calls = <<>>)
    /\ [][(LastIsCreate' /\ last'.req.body.kind = "invalid") =>
            (db' = db /\ vectors' = vectors)]_vars
    /\ [][\A r \in Slots :
            (pc'[r] = "json" /\ req'[r].body.kind = "invalid") =>
                (db' = db /\ vectors' = vectors)]_vars

\* C20 witness: the body does not parse, with a document stored.
C20_Witness ==
    /\ LastIsCreate
    /\ last.req.body.kind = "invalid"
    /\ last.threw = "request.json"
    /\ last.resp.status = 500
    /\ Len(db) >= 1

\* the create completed had a JSON object without title or without content
IncompleteCreate ==
    /\ LastIsCreate
    /\ last.req.body.kind = "object"
    /\ ~({"title", "content"} \subseteq last.req.body.has)

\* C21: a POST /api/documents whose JSON body lacks title or content is
\* answered 400 with a JSON body, and calls neither the embedding provider
\* nor the vector index nor the INSERT.
C21_MissingFieldIs400 ==
    IncompleteCreate =>
        /\ last.resp.status = 400
        /\ last.resp.kind = "json"
        /\ last.calls = <<>>

\* C21 witness: a create without title has its embedding made and its vector
\* upserted, and is answered the generic 500 when the INSERT is refused; the
\* vector stays.
C21_Witness ==
    /\ IncompleteCreate
    /\ last.threw = "DB.insert"
    /\ last.resp.status = 500
    /\ Called(last.calls, "AI.run")
    /\ Called(last.calls, "VECTORS.upsert")
    /\ last.loc.id \in DOMAIN vectors
    /\ ~HasRow(db, last.loc.id)

\* C22: documents are never updated or deleted: every step keeps every row of
\* the table as it is, at its place, so a row that exists exists unchanged in
\* every later state, and the rows only grow in number.
C22_RowsNeverChange ==
    [][/\ Len(db') >= Len(db)
       /\ \A k \in 1..Len(db) : db'[k] = db[k]
       /\ \A j \in 1..Len(db') :
            j > Len(db) => ~HasRow(db, db'[j].id)]_vars

\* C22 witness: with two documents stored, a read was answered after its
\* database call rejected.
C22_Witness ==
    /\ Len(db) = 2
    /\ Answered
    /\ last.req.method = "GET"
    /\ last.threw \in {"DB.first", "DB.all"}

\* C23, as claimed: created is non-decreasing with insertion order, also for
\* creates that run concurrently: a row inserted before another has a created
\* that is not greater.
C23_Original ==
    \A j, k \in 1..Len(db) : j < k => db[j].created <= db[k].created

\* C23, amended: a create that reads the clock for its INSERT gets a created
\* that is not less than the created of any row inserted by then, and no row
\* has a created ahead of the clock.
C23_CreatedNotBeforeEarlierRows ==
    /\ [][\A r \in Slots :
            (pc[r] = "upsert" /\ pc'[r] = "insert") =>
                \A k \in 1..Len(db) : db[k].created <= loc'[r].created]_vars
    /\ [](\A k \in 1..Len(db) : db[k].created <= now)

\* C23 witness: a create has read the clock a second after the created of a
\* row already inserted, and waits for its INSERT.
C23_Witness ==
    \E r \in Slots :
        /\ pc[r] = "insert"
        /\ Len(db) >= 1
        /\ db[1].created < loc[r].created

\* the names of the bindings called, in the order of the calls
Deps(c) == [k \in 1..Len(c) |-> c[k].dep]

\* the embedding is a usable vector
Validated(embedding) == embedding.hasData /\ embedding.data # <<>>

\* C24: the three calls of a create are made one after the other: while the
\* embedding is awaited nothing else has been called; the upsert is started
\* only with a validated embedding and has not taken effect while it is
\* awaited; the INSERT is started only when the upsert has taken effect. When
\* the upsert rejects, the INSERT is not attempted, the table is unchanged and
\* the answer is the generic 500.
C24_CallsSequenced ==
    /\ [](\A r \in Slots :
            /\ pc[r] = "embed_doc" => Deps(calls[r]) = <<"AI.run">>
            /\ pc[r] = "upsert" =>
                /\ Deps(calls[r]) = <<"AI.run", "VECTORS.upsert">>
                /\ Validated(loc[r].embedding)
                /\ loc[r].id \notin DOMAIN vectors
            /\ pc[r] = "insert" =>
                /\ Deps(calls[r]) = <<"AI.run", "VECTORS.upsert", "DB.insert">>
                /\ loc[r].id \in DOMAIN vectors
                /\ ~HasRow(db, loc[r].id))
    /\ [](last.threw = "VECTORS.upsert" =>
            /\ Deps(last.calls) = <<"AI.run", "VECTORS.upsert">>
            /\ IsJsonError(last.resp, 500, "Internal server error")
            /\ ~HasRow(db, last.loc.id))
    /\ [][last'.threw = "VECTORS.upsert" => db' = db]_vars

\* C24 witness: the upsert of a second create rejected, with one document
\* stored.
C24_Witness ==
    /\ last.threw = "VECTORS.upsert"
    /\ Len(db) = 1
    /\ last.resp.status = 500

\* vector entries without a row, of no create still in flight
Orphans ==
    {i \in DOMAIN vectors :
        ~HasRow(db, i) /\ \A r \in Slots : pc[r] = "idle" \/ loc[r].id # i}

\* C25: a create whose INSERT fails after its upsert succeeded is answered the
\* generic 500 having called each binding once; the vector index keeps the
\* entry of its id, which has no row; and no step of any request removes or
\* changes an entry of the vector index.
C25_OrphanVectorStays ==
    /\ [](last.threw = "DB.insert" =>
            /\ IsJsonError(last.resp, 500, "Internal server error")
            /\ Deps(last.calls) = <<"AI.run", "VECTORS.upsert", "DB.insert">>
            /\ last.loc.id \in DOMAIN vectors
            /\ ~HasRow(db, last.loc.id))
    /\ [][\A i \in DOMAIN vectors :
            i \in DOMAIN vectors' /\ vectors'[i] = vectors[i]]_vars

\* C25 witness: a search is answered while the index holds an orphan, and
\* lists it.
C25_Witness ==
    /\ LastIsSearch
    /\ last.resp.status = 200
    /\ \E k \in 1..Len(last.resp.body.results) :
        last.resp.body.results[k].id \in Orphans

\* C26: requests do not interfere: whatever the interleaving of the creates,
\* every row has vector_id equal to its id and the title and content that the
\* request answered with its id submitted, the vector entry of its id carries
\* that title, and every create in flight holds its own title and content, a
\* vector written for it carrying its title.
C26_NoInterference ==
    /\ \A k \in 1..Len(db) :
        /\ db[k].vector_id = db[k].id
        /\ \E a \in 1..Len(answered) :
            /\ answered[a].id = db[k].id
            /\ answered[a].title = db[k].title
            /\ answered[a].content = db[k].content
        /\ db[k].id \in DOMAIN vectors
        /\ vectors[db[k].id].metadata.title = db[k].title
    /\ \A r \in Drawn :
        /\ loc[r].title = req[r].body.title
        /\ loc[r].content = req[r].body.content
        /\ pc[r] = "insert" =>
            /\ loc[r].id \in DOMAIN vectors
            /\ vectors[loc[r].id].metadata.title = req[r].body.title
            /\ vectors[loc[r].id].values = <<"embedding", req[r].body.content>>
    /\ (LastIsCreate /\ last.resp.status = 200) =>
        /\ last.resp.body.title = last.req.body.title
        /\ last.resp.body.content = last.req.body.content
        /\ RowOf(db, last.resp.body.id).title = last.req.body.title

\* C26 witness: two creates with different titles and contents both wait for
\* their INSERT, their vectors written.
C26_Witness ==
    \E r1, r2 \in Slots :
        /\ pc[r1] = "insert" /\ pc[r2] = "insert"
        /\ req[r1].body.title # req[r2].body.title
        /\ req[r1].body.content # req[r2].body.content
        /\ {loc[r1].id, loc[r2].id} \subseteq DOMAIN vectors

\* a create is between its upsert, which has resolved, and its INSERT,
\* which has not, with id i
BetweenUpsertAndInsert(i) ==
    \E r \in Slots : pc[r] = "insert" /\ loc[r].id = i /\ i \in DOMAIN vectors

\* C27: creation is not atomic for readers. When no call fails, every id a
\* search returns is the id of a row or of a create between its upsert and
\* its INSERT; in the second case, which happens, a lookup of the id at that
\* moment finds no row (404) and a listing omits it.
C27_SearchSeesVectorBeforeRow ==
    SuccessfulSearch =>
        \A k \in 1..Len(last.resp.body.results) :
            LET i == last.resp.body.results[k].id IN
                /\ HasRow(db, i) \/ BetweenUpsertAndInsert(i)
                /\ BetweenUpsertAndInsert(i) =>
                    /\ GetResponse(SelectFirst(db, i)).status = 404
                    /\ \A tie \in TieOrders : ~Listed(SelectList(db, tie), i)

\* C27 witness: a search is answered with the id of a create that has not
\* inserted its row yet, beside the id of a stored document; no call has
\* failed.
C27_Witness ==
    /\ SuccessfulSearch
    /\ Len(db) = 1
    /\ \E k \in 1..Len(last.resp.body.results) :
        LET i == last.resp.body.results[k].id IN
            /\ BetweenUpsertAndInsert(i)
            /\ ~HasRow(db, i)
            /\ GetResponse(SelectFirst(db, i)).status = 404
            /\ ~Listed(SelectList(db, "scan"), i)

\* where a request waits for a call of a read: the lookup, the listing, the
\* embedding of the query, the query of the index
ReadWaits == {"first", "all", "embed_query", "query"}

\* the step is one of the read request of slot r: its arrival or the return
\* of one of its calls
ReadStep(r) ==
    \/ pc[r] = "idle" /\ pc'[r] \in ReadWaits
    \/ pc[r] \in ReadWaits /\ pc'[r] # pc[r]
    \/ /\ pc[r] = "idle" /\ pc'[r] = "idle"
       /\ last'.req.method = "GET" /\ last'.resp.kind # "none"

\* C28: reads write nothing: no step of a GET by id, of a listing or of a
\* search changes the table or the vector index; a GET by id and a listing
\* call the database only, a search the embedding provider and the query of
\* the vector index only.
C28_ReadsWriteNothing ==
    /\ [][\A r \in Slots : ReadStep(r) => (db' = db /\ vectors' = vectors)]_vars
    /\ []((LastIsGetById \/ LastIsList) =>
            \A k \in 1..Len(last.calls) :
                last.calls[k].dep \in {"DB.first", "DB.all"})
    /\ [](LastIsSearch =>
            \A k \in 1..Len(last.calls) :
                last.calls[k].dep \in {"AI.run", "VECTORS.query"})
    /\ [](\A r \in Slots :
            /\ pc[r] \in {"first", "all"} =>
                \A k \in 1..Len(calls[r]) : calls[r][k].dep \in {"DB.first", "DB.all"}
            /\ pc[r] \in {"embed_query", "query"} =>
                \A k \in 1..Len(calls[r]) :
                    calls[r][k].dep \in {"AI.run", "VECTORS.query"})

\* C28 witness: a search was answered with the two documents stored, and the
\* stores hold those two documents.
C28_Witness ==
    /\ SuccessfulSearch
    /\ Len(last.resp.body.results) = 2
    /\ Len(db) = 2
    /\ Cardinality(DOMAIN vectors) = 2

\* C29: whatever the limit parameter of a search is, the topK the vector index
\* is queried with is an integer from 1 to 20.
C29_TopKBetween1And20 ==
    LastQueried =>
        /\ ~LastTopK.nan
        /\ LastTopK.val >= 1
        /\ LastTopK.val <= 20

\* C29 witness: a search with limit=0 queried the index with topK 0.
C29_Witness ==
    /\ LastQueried
    /\ last.req.limit = Limit(<<Digit(0)>>)
    /\ LastTopK = Num(0)

----------------------------------------------------------------------------
(* The drawers of the client: SiteMenu and ConfigDrawer run the same code *)

\* src/client/components/ConfigDrawer.tsx:29-33: the callback given to start:
\* the shouldRender it leaves, for the isOpen it closed over
StartCallback(isOpen, shouldRender) == IF ~isOpen THEN FALSE ELSE shouldRender

\* src/client/components/ConfigDrawer.tsx:20-34: the body of the effect, for
\* the component state c: setShouldRender(true) when open, then a new timing
\* animation on slideAnim is started, which stops the one in flight and calls
\* the callback that one was started with
RunEffect(c) ==
    LET shown == IF c.isOpen THEN TRUE ELSE c.shouldRender IN
    [c EXCEPT !.shouldRender = IF c.anim.running
                               THEN StartCallback(c.anim.isOpen, shown)
                               ELSE shown,
              !.anim = Anim(c.isOpen),
              !.effect = FALSE]

\* src/client/app/index.tsx:13-14,59-60: setIs...Open(!is...Open) from the
\* bottom bar; the component renders again with the new prop, and its effect
\* (dependency isOpen) is scheduled. React runs the effect of a render before
\* it renders the next update.
Press(d) ==
    /\ ~drawer[d].effect
    /\ drawer' = [drawer EXCEPT ![d].isOpen = ~drawer[d].isOpen,
                                ![d].effect = TRUE]
    /\ UNCHANGED apiVars

\* src/client/app/index.tsx:47,53, ConfigDrawer.tsx:50: onClose from the
\* backdrop or the close button of a rendered drawer: setIs...Open(false)
Close(d) ==
    /\ ~drawer[d].effect
    /\ drawer[d].shouldRender
    /\ drawer[d].isOpen
    /\ drawer' = [drawer EXCEPT ![d].isOpen = FALSE, ![d].effect = TRUE]
    /\ UNCHANGED apiVars

\* src/client/components/ConfigDrawer.tsx:20-34: the effect runs
Effect(d) ==
    /\ drawer[d].effect
    /\ drawer' = [drawer EXCEPT ![d] = RunEffect(drawer[d])]
    /\ UNCHANGED apiVars

\* src/client/components/ConfigDrawer.tsx:25-33: the animation in flight
\* reaches its end value after 300 ms and calls its callback
AnimationEnd(d) ==
    /\ drawer[d].anim.running
    /\ drawer' = [drawer EXCEPT
                    ![d].shouldRender =
                        StartCallback(drawer[d].anim.isOpen, drawer[d].shouldRender),
                    ![d].anim = NoAnim]
    /\ UNCHANGED apiVars

NextDrawer ==
    \E d \in Drawers : Press(d) \/ Close(d) \/ Effect(d) \/ AnimationEnd(d)

SpecDrawer == Init /\ [][NextDrawer]_vars

\* the drawer is at rest: its effect has run and no animation is in flight
AtRest(d) == ~drawer[d].effect /\ ~drawer[d].anim.running

\* C30: once no animation of a drawer is in flight, its shouldRender equals
\* its isOpen: an open drawer is rendered, a closed one is unmounted.
C30_RenderedIffOpen ==
    \A d \in Drawers :
        AtRest(d) => drawer[d].shouldRender = drawer[d].isOpen

\* C30 witness: a drawer at rest is open and is not rendered.
C30_Witness ==
    \E d \in Drawers :
        AtRest(d) /\ drawer[d].isOpen /\ ~drawer[d].shouldRender

====
